---- MODULE Spec2Model ----
(***************************************************************************)
(* Dialogue-state engine of the rental bot (src/core.py, RentalBotCore):   *)
(* the in-memory client cache and conversation buffers, the SQLite store   *)
(* (tables clients and messages), the statistics counters, the three       *)
(* handler lists, and the operations chat, reset_client, get_client_info,  *)
(* get_all_clients, on_message / on_completion / on_error, and a process   *)
(* restart (a new RentalBotCore over the same database file).              *)
(*                                                                         *)
(* Python dicts are functions whose DOMAIN is the set of keys.  Texts are  *)
(* sequences of tokens, so that the marker test, the marker removal and    *)
(* the concatenations onto raw_data are computed, not assumed.             *)
(***************************************************************************)
EXTENDS Integers, Sequences, FiniteSets, TLC

\* ------------------------------------------------------------------ bounds
\* chat() calls that the model explores, over all clients.
MaxTurns == 2
\* config.max_conversation_history, the configured window of the
\* conversation buffer (core.py:339): the value Spec runs with, and the
\* largest value SpecWindow configures.
max_conversation_history == 3

\* Coroutines that can be suspended at the same time (SpecAsync).
MaxTasks == 2
\* ClientInfo objects allocated while coroutines overlap (SpecAsync).
MaxObjects == 2

\* Length of the extraction responses, in tokens (SpecExtract).
MaxLen == 4
\* Clock readings after the import of the module (SpecClock).
MaxTime == 2

\* Calls of chat() made by the Avito adapter (SpecAvito).
MaxSubmissions == 3
\* aiohttp sessions made by the Avito client (SpecAvito).
MaxSessions == 3

\* Completed-lead notifications sent by the manager bot (SpecManagers).
MaxNotifications == 2
\* Text messages the test bot forwards to the engine (SpecTestBot).
MaxForwards == 2

\* ------------------------------------------------------------------ inputs
Ids == {"u1"}
UserTexts == {<<"hello">>}

\* BotConstants.COMPLETION_MARKER, ErrorMessages.OPENAI_ERROR and
\* ErrorMessages.TECHNICAL_ERROR: the values live in config.py; the engine
\* refers to them by these names.
COMPLETION_MARKER == "MARKER"
OPENAI_ERROR == <<"OPENAI_ERROR">>
TECHNICAL_ERROR == <<"TECHNICAL_ERROR">>

\* What the completion provider can do on the dialogue call: raise, or
\* return a text.  The texts cover no marker, a marker and a repeated marker.
ProviderFail == <<"raise">>
ProviderReplies ==
    { <<"reply">>, <<"reply", COMPLETION_MARKER>>,
      <<COMPLETION_MARKER, "reply", COMPLETION_MARKER>> }
ProviderOutcomes == {ProviderFail} \cup ProviderReplies

\* What the extraction call can yield: the provider raises, the text has no
\* {...} span, the span is not JSON, the span is the object {} or an object
\* with fields.
ExtractionOutcomes == {"raise", "nojson", "badjson", "emptyobj", "obj"}
ExtractionFailures == {"raise", "nojson", "badjson"}
NotCalled == "not_called"

\* Python values of ClientInfo.final_data.
PyNone == "None"
EmptyDict == "dict()"
IvanDict == "dict(name=Ivan)"

\* Where the first failing store write of an operation is, if any.
StoreFaults == {"none", "msg_user", "client"}

VARIABLES
    clients,               \* self.clients: user_id -> ClientInfo
    conversation_history,  \* self.conversation_history: user_id -> list
    message_handlers,      \* self.message_handlers
    completion_handlers,   \* self.completion_handlers
    error_handlers,        \* self.error_handlers
    stats,                 \* self.stats (the three counters)
    initialized,           \* self._initialized
    db_tables,             \* the database file has its tables
    db_clients,            \* table clients: user_id -> row
    db_messages,           \* table messages: rows in insertion order
    last,                  \* the last operation and what it gave its caller
    turns,                 \* chat() calls so far (bounds the exploration)
    config,                \* self.config (the fields the engine branches on)
    tasks,                 \* the coroutines suspended at an await, by task
    heap,                  \* the ClientInfo objects tasks refer to
    now,                   \* the wall clock
    import_time,           \* when this process defined class ClientInfo
    extraction,            \* the last _extract_final_data call, text level
    avito_bot,             \* AvitoGPTBot: processed_messages, calls of chat()
    avito_client,          \* AvitoAPIClient: self.session, the sessions made
    avito_chats,           \* the Avito account: its chat, read or unread
    manager_bot,           \* TelegramManagerBot: authorized_managers
    test_bot               \* TelegramTestBot: the FSM state of each tester

\* The engine.
core_vars ==
    <<clients, conversation_history, message_handlers, completion_handlers,
      error_handlers, stats, initialized, db_tables, db_clients, db_messages,
      last, turns, config, tasks, heap, now, import_time, extraction>>

\* The adapters in front of the engine.
adapter_vars ==
    <<avito_bot, avito_client, avito_chats, manager_bot, test_bot>>

vars == <<core_vars, adapter_vars>>

\* ------------------------------------------------------------ pure helpers
\* A Python dict assignment d[k] = v.
DictSet(d, k, v) == [x \in (DOMAIN d) \cup {k} |-> IF x = k THEN v ELSE d[x]]

\* A del d[k] that was left out.
DictDelOmitted(d, k) == d

\* A Python del d[k].
DictDel(d, k) == [x \in (DOMAIN d) \ {k} |-> d[x]]

\* MARKER in text
Contains(text, tok) == \E i \in 1..Len(text) : text[i] = tok

\* text.replace(MARKER, "")
RemoveTok(text, tok) == SelectSeq(text, LAMBDA t : t # tok)

\* ClientInfo(user_id=user_id): every field but user_id takes its default.
\* The default of created_at, datetime.now(), is evaluated once, when the
\* class is defined: every record a process creates without passing
\* created_at carries the time that process imported the module.
\* ImportTime is that time for the first process.
ImportTime == 0
NewClientInfo(id) ==
    [user_id |-> id, raw_data |-> <<>>, is_complete |-> FALSE,
     message_count |-> 0, created_at |-> import_time, final_data |-> PyNone]

\* Python truthiness of a final_data value: None and {} are falsy.
Truthy(v) == v \notin {PyNone, EmptyDict}

\* json.dumps of a final_data value, and the SQL NULL.
SqlNull == "NULL"
JsonDumps(v) ==
    CASE v = PyNone -> "null"
      [] v = EmptyDict -> "{}"
      [] OTHER -> "{\"name\": \"Ivan\"}"

\* json.loads of a stored text.
JsonLoads(t) ==
    CASE t = "null" -> PyNone
      [] t = "{}" -> EmptyDict
      [] OTHER -> IvanDict

\* _save_client: the final_data column.
FinalDataColumn(v) == IF Truthy(v) THEN JsonDumps(v) ELSE SqlNull

\* _save_client: the row written for a ClientInfo.  The column updated_at,
\* a write timestamp that nothing reads back, is left out.
RowOf(c) ==
    [raw_data |-> c.raw_data, final_data |-> FinalDataColumn(c.final_data),
     is_complete |-> c.is_complete, message_count |-> c.message_count,
     created_at |-> c.created_at]

\* A row-to-ClientInfo conversion that does not pass message_count, so that
\* the field takes its default.
ClientOfRowCountDropped(id, row) ==
    [user_id |-> id, raw_data |-> row.raw_data,
     is_complete |-> row.is_complete, message_count |-> 0,
     created_at |-> import_time,
     final_data |-> IF row.final_data \notin {SqlNull, ""}
                    THEN JsonLoads(row.final_data) ELSE PyNone]

\* _get_or_create_client, the branch that builds a ClientInfo from a row:
\* a NULL or empty final_data column gives None; created_at is not passed,
\* so it takes the class default.
ClientOfRow(id, row) ==
    [user_id |-> id, raw_data |-> row.raw_data,
     is_complete |-> row.is_complete, message_count |-> row.message_count,
     created_at |-> import_time,
     final_data |-> IF row.final_data \notin {SqlNull, ""}
                    THEN JsonLoads(row.final_data) ELSE PyNone]

\* The Python slice lst[i:]: a negative i counts from the end, and -0 is 0,
\* the start of the list.
PySliceFrom(lst, i) ==
    LET start == IF i < 0
                 THEN (IF Len(lst) + i < 0 THEN 0 ELSE Len(lst) + i)
                 ELSE (IF i > Len(lst) THEN Len(lst) ELSE i)
    IN  SubSeq(lst, start + 1, Len(lst))

\* _update_conversation_history, lines 339-340: a list longer than the
\* configured window is replaced by its slice [-max:].
Trim(buf) ==
    IF Len(buf) > config.max_conversation_history
    THEN PySliceFrom(buf, 0 - config.max_conversation_history)
    ELSE buf

\* _update_conversation_history: the buffer of id (created when missing)
\* gets the entry appended and is then cut to the window.
HistoryAppend(hist, id, role, content) ==
    LET old == IF id \in DOMAIN hist THEN hist[id] ELSE <<>>
    IN  DictSet(hist, id, Trim(Append(old, <<role, content>>)))

\* An _extract_final_data that returns None when it has no object.
ExtractFinalDataNoneOnFailure(outcome) ==
    CASE outcome = "obj" -> IvanDict
      [] outcome = "emptyobj" -> EmptyDict
      [] OTHER -> PyNone

\* _extract_final_data: the value returned for each outcome of the call.
ExtractFinalData(outcome) == IF outcome = "obj" THEN IvanDict ELSE EmptyDict

\* _load_existing_clients: the counters recomputed from the tables.
LoadedStats(dbc, dbm) ==
    [total_clients |-> Cardinality(DOMAIN dbc),
     completed_clients |-> Cardinality({i \in DOMAIN dbc : dbc[i].is_complete}),
     total_messages |-> Len(dbm)]

\* ------------------------------------------------------------------- state
\* No ClientInfo object is referred to by a suspended coroutine.
EmptyHeap == [objects |-> <<>>, cache |-> <<>>]

\* No _extract_final_data call has been followed at text level: text is
\* the content of the provider's response, matched and span the result of
\* re.search, result the value returned.
NoExtraction ==
    [text |-> <<>>, called |-> FALSE, matched |-> FALSE, span |-> <<>>,
     result |-> PyNone]

HandlerNames == {"h"}

\* The client field of an operation that returns no ClientInfo.
NoClient ==
    [user_id |-> "", raw_data |-> <<>>, is_complete |-> FALSE,
     message_count |-> 0, created_at |-> ImportTime, final_data |-> "None"]

NoResponse == [message |-> <<>>, is_completed |-> FALSE, extracted_data |-> PyNone]

\* The record of the last operation: what the caller got (raised: an
\* exception reached the caller; response: chat's BotResponse; ok:
\* reset_client's boolean; client: get_client_info's ClientInfo), and what
\* the operation did on the way (what the dialogue call to the provider did,
\* the number of provider calls, whether the extraction came back without
\* an object, the context sent on the dialogue call, whether the completion
\* handlers were dispatched, the handlers invoked in order with what each
\* did, the failing store write).
NoOp ==
    [op |-> "none", id |-> "", raised |-> FALSE, response |-> NoResponse,
     ok |-> FALSE, client |-> NoClient, was_completed |-> FALSE,
     provider |-> "not_called", provider_calls |-> 0,
     extraction_called |-> FALSE, extraction_failed |-> FALSE,
     request |-> <<>>,
     first_instruction |-> FALSE, completion_dispatched |-> FALSE,
     handler_trace |-> <<>>, fault |-> "none"]

\* __init__: the fields of a new RentalBotCore over a new database file.
Constructed ==
    /\ clients = <<>>
    /\ conversation_history = <<>>
    /\ message_handlers = <<>>
    /\ completion_handlers = <<>>
    /\ error_handlers = <<>>
    /\ stats = [total_clients |-> 0, completed_clients |-> 0, total_messages |-> 0]
    /\ initialized = FALSE
    /\ db_tables = FALSE
    /\ db_clients = <<>>
    /\ db_messages = <<>>
    /\ last = NoOp
    /\ turns = 0
    /\ tasks = <<>>
    /\ heap = EmptyHeap
    /\ now = ImportTime
    /\ import_time = ImportTime

\* The manager ids of the configuration (main.py, manager_chat_ids) and the
\* Telegram users that can write to the bots.
ManagerIds == {"m1"}
TelegramUsers == {"m1", "x"}

\* No manager command has been answered; no update has reached the test bot.
NoCommand == [user |-> "", granted |-> FALSE]
NoEvent == [kind |-> "none", user |-> "", forwarded |-> FALSE,
            is_completed |-> FALSE]

\* The adapters as constructed: AvitoGPTBot.__init__, AvitoAPIClient.__init__
\* (no session), an Avito account with one chat and nothing in it, the
\* manager bot made by create_manager_bot_with_predefined_managers, and a
\* test bot whose testers have no FSM state yet.
AdaptersConstructed ==
    /\ avito_bot = [processed_messages |-> {}, submitted |-> <<>>,
                    fetched |-> FALSE]
    /\ avito_client = [session |-> 0, sessions |-> <<>>, monitoring |-> 0,
                       health |-> 0]
    /\ avito_chats = [messages |-> <<>>, unread |-> FALSE]
    /\ manager_bot = [authorized_managers |-> ManagerIds,
                      manager_stats |-> [m \in ManagerIds |-> 0],
                      notifications |-> 0, notifications_sent |-> 0,
                      served |-> NoCommand]
    /\ test_bot = [state |-> [t \in TelegramUsers |-> "None"],
                   forwards |-> 0, event |-> NoEvent]

Init ==
    /\ config = [max_conversation_history |-> max_conversation_history]
    /\ Constructed
    /\ extraction = NoExtraction
    /\ AdaptersConstructed

\* --------------------------------------------------------------- operations
\* _ensure_initialized: the first call creates the tables and loads the
\* counters from them.
StatsAfterInit ==
    IF initialized THEN stats ELSE LoadedStats(db_clients, db_messages)

\* _get_or_create_client: the cached object, else one built from the row,
\* else a new one (counted in total_clients); the result is cached.
GetOrCreateClient(cache, st, id) ==
    IF id \in DOMAIN cache
    THEN [client |-> cache[id], stats |-> st]
    ELSE IF id \in DOMAIN db_clients
         THEN [client |-> ClientOfRow(id, db_clients[id]), stats |-> st]
         ELSE [client |-> NewClientInfo(id),
               stats |-> [st EXCEPT !.total_clients = @ + 1]]

\* What a handler does when it is invoked: the handler named "boom" raises
\* an Exception, every other handler returns.
Raises(h) == h = "boom"
Outcome(h) == IF Raises(h) THEN "raised" ELSE "returned"

\* Handler loops whose try statement encloses the for loop: the first
\* handler that raises ends the loop.
InvocationsUntilRaise(kind, handlers) ==
    LET stop == IF \E i \in 1..Len(handlers) : Raises(handlers[i])
                THEN CHOOSE i \in 1..Len(handlers) :
                        /\ Raises(handlers[i])
                        /\ \A j \in 1..(i - 1) : ~Raises(handlers[j])
                ELSE Len(handlers)
    IN  [i \in 1..stop |-> <<kind, handlers[i], Outcome(handlers[i])>>]

\* _call_handlers / _call_error_handlers: every handler of the list is
\* invoked in list order; the try statement is inside the loop, so that an
\* Exception of a handler is caught and logged and the loop goes on.
Invocations(kind, handlers) ==
    [i \in 1..Len(handlers) |-> <<kind, handlers[i], Outcome(handlers[i])>>]

\* _call_handlers, the test that guards the completion handlers.
CompletionDispatch(is_completed, was_completed) ==
    is_completed /\ ~was_completed

\* chat, lines 166-174: whether this reply completes the dialogue.
IsCompleted(bot_raw) == Contains(bot_raw, COMPLETION_MARKER)

\* A _generate_gpt_response whose except branch returns an empty text.
GeneratedTextEmptyOnFailure(prov) == IF prov = ProviderFail THEN <<>> ELSE prov

\* _generate_gpt_response: the text chat gets for an outcome of the call.
GeneratedText(prov) == IF prov = ProviderFail THEN OPENAI_ERROR ELSE prov

\* chat, lines 176-180: the reply is appended to raw_data.
WithBotTurn(c, bot_message) ==
    [c EXCEPT !.raw_data = Append(@, <<"bot", bot_message>>)]

\* chat(user_id, message), one whole call.  prov and extr are what the two
\* provider calls do, fault is the first store write that fails.
Chat(id, msg, prov, extr, fault) ==
    /\ turns < MaxTurns
    /\ LET g  == GetOrCreateClient(clients, StatsAfterInit, id)
           was_completed == g.client.is_complete
           c1 == [g.client EXCEPT !.message_count = @ + 1]
           st1 == [g.stats EXCEPT !.total_messages = @ + 1]
           m1 == Append(db_messages, <<id, "user", msg>>)
           c2 == [c1 EXCEPT !.raw_data = Append(@, <<"user", msg>>)]
           h2 == HistoryAppend(conversation_history, id, "user", msg)
           bot_raw == GeneratedText(prov)
           is_completed == IsCompleted(bot_raw)
           bot_message == IF is_completed
                          THEN RemoveTok(bot_raw, COMPLETION_MARKER)
                          ELSE bot_raw
           c3 == IF is_completed
                 THEN [c2 EXCEPT !.is_complete = TRUE,
                                 !.final_data = ExtractFinalData(extr)]
                 ELSE c2
           st3 == IF is_completed
                  THEN [st1 EXCEPT !.completed_clients = @ + 1]
                  ELSE st1
           c4 == WithBotTurn(c3, bot_message)
           h4 == HistoryAppend(h2, id, "assistant", bot_message)
           m4 == Append(m1, <<id, "bot", bot_message>>)
           response == [message |-> bot_message, is_completed |-> is_completed,
                        extracted_data |-> IF is_completed THEN c4.final_data
                                           ELSE PyNone]
           dispatch == CompletionDispatch(is_completed, was_completed)
           base == [NoOp EXCEPT !.op = "chat", !.id = id, !.fault = fault,
                                !.was_completed = was_completed]
           failed == [base EXCEPT !.response = [NoResponse EXCEPT
                                                  !.message = TECHNICAL_ERROR],
                                  !.handler_trace =
                                      Invocations("error", error_handlers)]
           called == [failed EXCEPT !.provider =
                                        IF prov = ProviderFail THEN "raised"
                                        ELSE "replied",
                                    !.provider_calls =
                                        IF is_completed THEN 2 ELSE 1,
                                    !.extraction_called = is_completed,
                                    !.extraction_failed =
                                        extr \in ExtractionFailures,
                                    !.request = h2[id],
                                    !.first_instruction = (c2.message_count = 1)]
       IN  /\ initialized' = TRUE
           /\ db_tables' = TRUE
           /\ turns' = turns + 1
           /\ UNCHANGED <<message_handlers, completion_handlers,
                          error_handlers, config, tasks, heap,
                   now, import_time, extraction, adapter_vars>>
           /\ CASE fault = "msg_user" ->
                    \* _save_message(user) raises: caught at line 194
                    /\ clients' = DictSet(clients, id, c1)
                    /\ stats' = st1
                    /\ last' = failed
                    /\ UNCHANGED <<conversation_history, db_clients,
                                   db_messages>>
                [] fault = "client" ->
                    \* _save_client raises: caught at line 194
                    /\ clients' = DictSet(clients, id, c4)
                    /\ stats' = st3
                    /\ conversation_history' = h4
                    /\ db_messages' = m4
                    /\ last' = called
                    /\ UNCHANGED db_clients
                [] OTHER ->
                    /\ clients' = DictSet(clients, id, c4)
                    /\ stats' = st3
                    /\ conversation_history' = h4
                    /\ db_messages' = m4
                    /\ db_clients' = DictSet(db_clients, id, RowOf(c4))
                    /\ last' = [called EXCEPT
                          !.response = response,
                          !.completion_dispatched = dispatch,
                          !.handler_trace =
                              Invocations("message", message_handlers) \o
                              (IF dispatch
                               THEN Invocations("completion", completion_handlers)
                               ELSE <<>>)]

ChatStep ==
    \E id \in Ids, msg \in UserTexts, prov \in ProviderOutcomes,
       fault \in StoreFaults :
        \E extr \in (IF Contains(prov, COMPLETION_MARKER)
                      THEN ExtractionOutcomes ELSE {NotCalled}) :
            Chat(id, msg, prov, extr, fault)

\* A reset_client whose _save_client call is not awaited: the coroutine never
\* runs, so nothing is written and nothing can fail.
ResetClientSaveNotAwaited(id, fault) ==
    /\ initialized' = TRUE
    /\ db_tables' = TRUE
    /\ stats' = StatsAfterInit
    /\ clients' = DictSet(clients, id, NewClientInfo(id))
    /\ conversation_history' = DictDel(conversation_history, id)
    /\ last' = [NoOp EXCEPT !.op = "reset", !.id = id, !.ok = TRUE]
    /\ UNCHANGED <<message_handlers, completion_handlers, error_handlers,
                   db_clients, db_messages, turns, config, tasks, heap,
                   now, import_time, extraction, adapter_vars>>

\* A reset_client whose except branch reports to the error handlers, as the
\* except branch of chat does.
ResetClientNotifiesOnError(id, fault) ==
    /\ initialized' = TRUE
    /\ db_tables' = TRUE
    /\ stats' = StatsAfterInit
    /\ clients' = DictSet(clients, id, NewClientInfo(id))
    /\ IF fault = "client"
       THEN /\ UNCHANGED <<db_clients, conversation_history>>
            /\ last' = [NoOp EXCEPT !.op = "reset", !.id = id, !.ok = FALSE,
                                    !.fault = fault,
                                    !.handler_trace =
                                        Invocations("error", error_handlers)]
       ELSE /\ db_clients' = DictSet(db_clients, id, RowOf(NewClientInfo(id)))
            /\ conversation_history' = DictDel(conversation_history, id)
            /\ last' = [NoOp EXCEPT !.op = "reset", !.id = id, !.ok = TRUE]
    /\ UNCHANGED <<message_handlers, completion_handlers, error_handlers,
                   db_messages, turns, config, tasks, heap,
                   now, import_time, extraction, adapter_vars>>

\* reset_client(user_id), one whole call.  The cache entry is replaced
\* before the save; a failing save is caught and gives False, and the
\* conversation buffer is deleted only after a save that worked.
ResetClient(id, fault) ==
    /\ initialized' = TRUE
    /\ db_tables' = TRUE
    /\ stats' = StatsAfterInit
    /\ clients' = DictSet(clients, id, NewClientInfo(id))
    /\ IF fault = "client"
       THEN /\ UNCHANGED <<db_clients, conversation_history>>
            /\ last' = [NoOp EXCEPT !.op = "reset", !.id = id, !.ok = FALSE,
                                    !.fault = fault]
       ELSE /\ db_clients' = DictSet(db_clients, id, RowOf(NewClientInfo(id)))
            /\ conversation_history' = DictDel(conversation_history, id)
            /\ last' = [NoOp EXCEPT !.op = "reset", !.id = id, !.ok = TRUE]
    /\ UNCHANGED <<message_handlers, completion_handlers, error_handlers,
                   db_messages, turns, config, tasks, heap,
                   now, import_time, extraction, adapter_vars>>

ResetStep == \E id \in Ids, fault \in {"none", "client"} : ResetClient(id, fault)

\* get_client_info(user_id): _get_or_create_client without
\* _ensure_initialized.  A client that is not cached is looked up in table
\* clients; the SELECT raises when the tables were never created.
GetClientInfo(id) ==
    IF id \notin DOMAIN clients /\ ~db_tables
    THEN /\ last' = [NoOp EXCEPT !.op = "get", !.id = id, !.raised = TRUE]
         /\ UNCHANGED <<clients, stats>>
    ELSE LET g == GetOrCreateClient(clients, stats, id)
         IN  /\ clients' = DictSet(clients, id, g.client)
             /\ stats' = g.stats
             /\ last' = [NoOp EXCEPT !.op = "get", !.id = id,
                                     !.client = g.client]

\* A get_client_info that saves the record it has just created.
GetStepSavesCreated ==
    \E id \in Ids :
        /\ GetClientInfo(id)
        /\ db_clients' =
              IF db_tables /\ id \notin DOMAIN clients
                 /\ id \notin DOMAIN db_clients
              THEN DictSet(db_clients, id, RowOf(NewClientInfo(id)))
              ELSE db_clients
        /\ UNCHANGED <<conversation_history, message_handlers,
                       completion_handlers, error_handlers, initialized,
                       db_tables, db_messages, turns, config, tasks, heap,
                   now, import_time, extraction, adapter_vars>>

GetStep ==
    /\ \E id \in Ids : GetClientInfo(id)
    /\ UNCHANGED <<conversation_history, message_handlers, completion_handlers,
                   error_handlers, initialized, db_tables, db_clients,
                   db_messages, turns, config, tasks, heap,
                   now, import_time, extraction, adapter_vars>>

\* get_all_clients(): every row of table clients through
\* _get_or_create_client, so every persisted client becomes cached.
GetAllClients ==
    /\ IF ~db_tables
       THEN /\ last' = [NoOp EXCEPT !.op = "get_all", !.raised = TRUE]
            /\ UNCHANGED clients
       ELSE /\ clients' = [i \in (DOMAIN clients) \cup (DOMAIN db_clients) |->
                              IF i \in DOMAIN clients THEN clients[i]
                              ELSE ClientOfRow(i, db_clients[i])]
            /\ last' = [NoOp EXCEPT !.op = "get_all"]
    /\ UNCHANGED <<conversation_history, message_handlers, completion_handlers,
                   error_handlers, stats, initialized, db_tables, db_clients,
                   db_messages, turns, config, tasks, heap,
                   now, import_time, extraction, adapter_vars>>

\* on_message / on_completion / on_error: append to the list.  The model
\* registers each handler at most once per list.
Registered(handlers, h) == \E i \in 1..Len(handlers) : handlers[i] = h

\* An on_completion that puts the handler at the head of the list.
OnCompletionInsertsFirst(h) ==
    /\ ~Registered(completion_handlers, h)
    /\ completion_handlers' = <<h>> \o completion_handlers
    /\ UNCHANGED <<clients, conversation_history, message_handlers,
                   error_handlers, stats, initialized, db_tables, db_clients,
                   db_messages, last, turns, config, tasks, heap,
                   now, import_time, extraction, adapter_vars>>

OnMessage(h) ==
    /\ ~Registered(message_handlers, h)
    /\ message_handlers' = Append(message_handlers, h)
    /\ UNCHANGED <<clients, conversation_history, completion_handlers,
                   error_handlers, stats, initialized, db_tables, db_clients,
                   db_messages, last, turns, config, tasks, heap,
                   now, import_time, extraction, adapter_vars>>

OnCompletion(h) ==
    /\ ~Registered(completion_handlers, h)
    /\ completion_handlers' = Append(completion_handlers, h)
    /\ UNCHANGED <<clients, conversation_history, message_handlers,
                   error_handlers, stats, initialized, db_tables, db_clients,
                   db_messages, last, turns, config, tasks, heap,
                   now, import_time, extraction, adapter_vars>>

OnError(h) ==
    /\ ~Registered(error_handlers, h)
    /\ error_handlers' = Append(error_handlers, h)
    /\ UNCHANGED <<clients, conversation_history, message_handlers,
                   completion_handlers, stats, initialized, db_tables,
                   db_clients, db_messages, last, turns, config, tasks, heap,
                   now, import_time, extraction, adapter_vars>>

RegisterStep ==
    \E h \in HandlerNames : OnMessage(h) \/ OnCompletion(h) \/ OnError(h)

\* The process stops and a new RentalBotCore is constructed over the same
\* database file (__init__): empty cache, buffers and handler lists, zeroed
\* counters; the tables keep their rows.
Restart ==
    /\ last.op # "restart"
    /\ clients' = <<>>
    /\ conversation_history' = <<>>
    /\ message_handlers' = <<>>
    /\ completion_handlers' = <<>>
    /\ error_handlers' = <<>>
    /\ stats' = [total_clients |-> 0, completed_clients |-> 0,
                 total_messages |-> 0]
    /\ initialized' = FALSE
    /\ last' = [NoOp EXCEPT !.op = "restart"]
    /\ tasks' = <<>>
    /\ heap' = EmptyHeap
    /\ import_time' = now
    /\ UNCHANGED <<db_tables, db_clients, db_messages, turns, config, now,
                   extraction, adapter_vars>>

Next ==
    \/ ChatStep
    \/ ResetStep
    \/ GetStep
    \/ GetAllClients
    \/ RegisterStep
    \/ Restart

Spec == Init /\ [][Next]_vars

\* ------------------------------------------------------- successful turns
\* The engine when every chat() is a successful turn that does not complete
\* the dialogue: the provider returns a text without the marker and every
\* store write of the call works.  The other operations are as in Spec.
PlainReplies == {r \in ProviderReplies : ~Contains(r, COMPLETION_MARKER)}

PlainChatStep ==
    \E id \in Ids, msg \in UserTexts, prov \in PlainReplies :
        Chat(id, msg, prov, NotCalled, "none")

NextPlain ==
    \/ PlainChatStep
    \/ ResetStep
    \/ GetStep
    \/ GetAllClients
    \/ RegisterStep
    \/ Restart

SpecPlain == Init /\ [][NextPlain]_vars

\* ------------------------------------------------------ configured window
\* The engine constructed with any window from 0 to max_conversation_history,
\* with chat() calls whose store writes work (every outcome of the dialogue
\* call, an extraction that yields an object), resets and restarts.
InitWindow ==
    /\ config \in {[max_conversation_history |-> n] :
                        n \in 0..max_conversation_history}
    /\ Constructed
    /\ extraction = NoExtraction
    /\ AdaptersConstructed

WindowChatStep ==
    \E id \in Ids, msg \in UserTexts, prov \in ProviderOutcomes :
        \E extr \in (IF Contains(prov, COMPLETION_MARKER)
                      THEN {"obj"} ELSE {NotCalled}) :
            Chat(id, msg, prov, extr, "none")

NextWindow ==
    \/ WindowChatStep
    \/ ResetStep
    \/ Restart

SpecWindow == InitWindow /\ [][NextWindow]_vars

\* ---------------------------------------------------------------- handlers
\* The engine with two handlers to register, one of which raises: "boom".
\* The handlers are registered one by one (on_message, on_completion,
\* on_error) or by BotBuilder.build from the lists of the builder; chat()
\* runs with every outcome of the dialogue call, an extraction that yields
\* an object, and a _save_client that works or raises.
BuilderHandlers == {"h", "boom"}

\* The handler lists a builder can hold: no handler twice.
BuilderLists ==
    {<<>>} \cup {<<a>> : a \in BuilderHandlers}
           \cup {p \in {<<a, b>> : a, b \in BuilderHandlers} : p[1] # p[2]}

\* A for loop of build: the handlers of a builder list are registered in
\* list order, each by an append.
RECURSIVE RegisterAll(_, _)
RegisterAll(list, hs) ==
    IF hs = <<>> THEN list
    ELSE RegisterAll(Append(list, Head(hs)), Tail(hs))

\* BotBuilder.build(): a new RentalBotCore, then the completion, message
\* and error handlers of the builder.
Build(cs, ms, es) ==
    /\ last.op = "none" /\ ~initialized
    /\ completion_handlers = <<>> /\ message_handlers = <<>>
    /\ error_handlers = <<>>
    /\ completion_handlers' = RegisterAll(completion_handlers, cs)
    /\ message_handlers' = RegisterAll(message_handlers, ms)
    /\ error_handlers' = RegisterAll(error_handlers, es)
    /\ UNCHANGED <<clients, conversation_history, stats, initialized,
                   db_tables, db_clients, db_messages, last, turns, config, tasks, heap,
                   now, import_time, extraction, adapter_vars>>

BuildStep == \E cs, ms, es \in BuilderLists : Build(cs, ms, es)

HandlerRegisterStep ==
    \E h \in BuilderHandlers : OnMessage(h) \/ OnCompletion(h) \/ OnError(h)

HandlerChatStep ==
    \E id \in Ids, msg \in UserTexts, prov \in ProviderOutcomes,
       fault \in {"none", "client"} :
        \E extr \in (IF Contains(prov, COMPLETION_MARKER)
                      THEN {"obj"} ELSE {NotCalled}) :
            Chat(id, msg, prov, extr, fault)

NextHandlers ==
    \/ BuildStep
    \/ HandlerRegisterStep
    \/ HandlerChatStep

SpecHandlers == Init /\ [][NextHandlers]_vars

\* ------------------------------------------------------- extraction text
\* _extract_final_data at the level of the response text.  A text is a
\* sequence of tokens: the two braces, a line break, a member as JSON writes
\* it ("name": "Ivan") and a word of prose.  Objects inside objects are not
\* among the texts.
Tokens == {"{", "}", "nl", "member", "prose"}

ResultTexts == UNION {[1..n -> Tokens] : n \in 0..MaxLen}

Min(S) == CHOOSE x \in S : \A y \in S : x <= y

Max(S) == CHOOSE x \in S : \A y \in S : x >= y

\* str.strip(): the white space at both ends is dropped (line 243).
RECURSIVE Strip(_)
Strip(t) ==
    IF t = <<>> THEN t
    ELSE IF Head(t) = "nl" THEN Strip(Tail(t))
    ELSE IF t[Len(t)] = "nl" THEN Strip(SubSeq(t, 1, Len(t) - 1))
    ELSE t

\* A search for \{.*?\}: the match ends at the first closing brace.
JsonSearchLazy(t) ==
    LET starts == {b \in 1..Len(t) :
                      t[b] = "{" /\ \E e \in (b + 1)..Len(t) : t[e] = "}"}
    IN  IF starts = {} THEN [matched |-> FALSE, span |-> <<>>]
        ELSE LET b == Min(starts)
                 e == Min({i \in (b + 1)..Len(t) : t[i] = "}"})
             IN  [matched |-> TRUE, span |-> SubSeq(t, b, e)]

\* re.search(r'\{.*\}', t, re.DOTALL), line 246: the leftmost position at
\* which the pattern matches, and from there the longest match; with DOTALL
\* the dot takes line breaks too.
JsonSearch(t) ==
    LET starts == {b \in 1..Len(t) :
                      t[b] = "{" /\ \E e \in (b + 1)..Len(t) : t[e] = "}"}
    IN  IF starts = {} THEN [matched |-> FALSE, span |-> <<>>]
        ELSE LET b == Min(starts)
                 e == Max({i \in (b + 1)..Len(t) : t[i] = "}"})
             IN  [matched |-> TRUE, span |-> SubSeq(t, b, e)]

\* The tokens of a span without its white space.
RECURSIVE Significant(_)
Significant(t) ==
    IF t = <<>> THEN t
    ELSE IF Head(t) = "nl" THEN Significant(Tail(t))
    ELSE <<Head(t)>> \o Significant(Tail(t))

\* json.loads of a span (line 248): an object with no member or with the
\* member; anything else raises.
JsonLoadsSpan(span) ==
    LET body == Significant(span)
    IN  CASE body = <<"{", "}">> -> [raised |-> FALSE, value |-> EmptyDict]
          [] body = <<"{", "member", "}">> ->
                [raised |-> FALSE, value |-> IvanDict]
          [] OTHER -> [raised |-> TRUE, value |-> PyNone]

\* _extract_final_data, lines 243-255, for a response text.
ExtractionOf(text) ==
    LET m == JsonSearch(Strip(text))
        parsed == JsonLoadsSpan(m.span)
    IN  [text |-> text, called |-> TRUE, matched |-> m.matched,
         span |-> m.span,
         result |-> IF m.matched /\ ~parsed.raised THEN parsed.value
                    ELSE EmptyDict]

InitExtract ==
    /\ config = [max_conversation_history |-> max_conversation_history]
    /\ Constructed
    /\ extraction \in {[NoExtraction EXCEPT !.text = t] : t \in ResultTexts}
    /\ AdaptersConstructed

ExtractStep ==
    /\ ~extraction.called
    /\ extraction' = ExtractionOf(extraction.text)
    /\ UNCHANGED <<clients, conversation_history, message_handlers,
                   completion_handlers, error_handlers, stats, initialized,
                   db_tables, db_clients, db_messages, last, turns, config,
                   tasks, heap, now, import_time, adapter_vars>>

NextExtract == ExtractStep

SpecExtract == InitExtract /\ [][NextExtract]_vars

\* ------------------------------------------------------------------- clock
\* The engine with time passing: now is what datetime.now() returns.  The
\* default of ClientInfo.created_at is evaluated when the class is defined,
\* so import_time is the reading a record gets when created_at is not
\* passed; a new process imports the module again (Restart).
Tick ==
    /\ now < MaxTime
    /\ now' = now + 1
    /\ UNCHANGED <<clients, conversation_history, message_handlers,
                   completion_handlers, error_handlers, stats, initialized,
                   db_tables, db_clients, db_messages, last, turns, config,
                   tasks, heap, import_time, extraction, adapter_vars>>

NextClock ==
    \/ PlainChatStep
    \/ ResetStep
    \/ GetStep
    \/ Restart
    \/ Tick

SpecClock == Init /\ [][NextClock]_vars

\* ------------------------------------------------------- overlapping calls
\* The engine on one asyncio event loop, when a chat() or reset_client() can
\* start while another is suspended.  A coroutine runs without interruption
\* from one await that really suspends it (an aiosqlite call) to the next;
\* awaits of coroutines that never suspend (_get_or_create_client on a cached
\* client, _update_conversation_history, _generate_gpt_response and
\* _extract_final_data, whose provider calls are synchronous) leave no room
\* for another task.  tasks holds the frames of the suspended coroutines and
\* heap the ClientInfo objects, so that two frames can hold the same object
\* and a frame can hold an object that is no longer the cached one; clients
\* is kept equal to the cached objects.  Here _ensure_initialized is taken
\* in one piece, every store write works, handlers are plain functions, and
\* get_client_info is called on cached clients only (no await suspends it).
\* A SELECT reads the table when its await is resumed.
Obj(a) == heap.objects[a].client

CachedClients(h) == [id \in DOMAIN h.cache |-> h.objects[h.cache[id]].client]

\* obj.field = value on the object at address a.
SetObj(h, a, rec) == [h EXCEPT !.objects[a].client = rec]

\* A new ClientInfo object; in self.clients[id] when cached.  With each
\* object the model counts the _extract_final_data calls made for it and
\* the completion handler invocations made with it.
NewObject(rec) == [client |-> rec, completion_calls |-> 0, extractions |-> 0]

Selecting == Cardinality({i \in 1..Len(tasks) : tasks[i].pc = "select"})

CanAllocate == Len(heap.objects) + Selecting < MaxObjects

RemoveAt(seq, i) == SubSeq(seq, 1, i - 1) \o SubSeq(seq, i + 1, Len(seq))

NoFrame ==
    [op |-> "chat", id |-> "", msg |-> <<>>, pc |-> "select", ref |-> 0,
     was_completed |-> FALSE, is_completed |-> FALSE, bot_message |-> <<>>,
     provider |-> "not_called", final_data_json |-> SqlNull]

\* chat(), lines 145-155: up to the first await that suspends.  For a cached
\* client that is _save_message (the counters are incremented before it);
\* for any other it is the SELECT of _get_or_create_client.
AsyncChatStart(id, msg) ==
    /\ turns < MaxTurns
    /\ Len(tasks) < MaxTasks
    /\ id \in DOMAIN heap.cache \/ CanAllocate
    /\ initialized' = TRUE
    /\ db_tables' = TRUE
    /\ turns' = turns + 1
    /\ IF id \in DOMAIN heap.cache
       THEN LET a == heap.cache[id]
                c == Obj(a)
            IN  /\ heap' = SetObj(heap, a,
                                  [c EXCEPT !.message_count = @ + 1])
                /\ stats' = [StatsAfterInit EXCEPT !.total_messages = @ + 1]
                /\ tasks' = Append(tasks,
                      [NoFrame EXCEPT !.id = id, !.msg = msg,
                                      !.pc = "save_user", !.ref = a,
                                      !.was_completed = c.is_complete])
       ELSE /\ heap' = heap
            /\ stats' = StatsAfterInit
            /\ tasks' = Append(tasks,
                  [NoFrame EXCEPT !.id = id, !.msg = msg, !.pc = "select"])
    /\ clients' = CachedClients(heap')
    /\ UNCHANGED <<conversation_history, message_handlers,
                   completion_handlers, error_handlers, db_clients,
                   db_messages, last, config, now, import_time, extraction, adapter_vars>>

\* _get_or_create_client, lines 264-289, resumed with the row: the record
\* is built and assigned to self.clients[user_id], whatever is cached there
\* by now; then chat(), lines 150-155, up to _save_message.
AsyncSelected(i) ==
    /\ tasks[i].op = "chat" /\ tasks[i].pc = "select"
    /\ LET id == tasks[i].id
           found == id \in DOMAIN db_clients
           rec == IF found THEN ClientOfRow(id, db_clients[id])
                  ELSE NewClientInfo(id)
           a == Len(heap.objects) + 1
       IN  /\ heap' = [objects |->
                          Append(heap.objects,
                                 NewObject([rec EXCEPT
                                              !.message_count = @ + 1])),
                       cache |-> DictSet(heap.cache, id, a)]
           /\ stats' = [stats EXCEPT
                          !.total_clients = IF found THEN @ ELSE @ + 1,
                          !.total_messages = @ + 1]
           /\ tasks' = [tasks EXCEPT ![i] =
                          [@ EXCEPT !.pc = "save_user", !.ref = a,
                                    !.was_completed = rec.is_complete]]
    /\ clients' = CachedClients(heap')
    /\ UNCHANGED <<conversation_history, message_handlers,
                   completion_handlers, error_handlers, initialized,
                   db_tables, db_clients, db_messages, last, turns, config,
                   now, import_time, extraction, adapter_vars>>

\* chat(), lines 155-178, resumed after the inbound message is logged: the
\* transcript, the buffer, the provider call, the marker test, the
\* extraction and the reply, up to the _save_message of the reply.
AsyncUserSaved(i, prov, extr) ==
    /\ tasks[i].op = "chat" /\ tasks[i].pc = "save_user"
    /\ LET f == tasks[i]
           c == Obj(f.ref)
           c2 == [c EXCEPT !.raw_data = Append(@, <<"user", f.msg>>)]
           h2 == HistoryAppend(conversation_history, f.id, "user", f.msg)
           bot_raw == GeneratedText(prov)
           is_completed == IsCompleted(bot_raw)
           bot_message == IF is_completed
                          THEN RemoveTok(bot_raw, COMPLETION_MARKER)
                          ELSE bot_raw
           c3 == IF is_completed
                 THEN [c2 EXCEPT !.is_complete = TRUE,
                                 !.final_data = ExtractFinalData(extr)]
                 ELSE c2
           c4 == WithBotTurn(c3, bot_message)
       IN  /\ db_messages' = Append(db_messages, <<f.id, "user", f.msg>>)
           /\ conversation_history' =
                  HistoryAppend(h2, f.id, "assistant", bot_message)
           /\ heap' = [SetObj(heap, f.ref, c4) EXCEPT
                         !.objects[f.ref].extractions =
                             IF is_completed THEN @ + 1 ELSE @]
           /\ stats' = IF is_completed
                       THEN [stats EXCEPT !.completed_clients = @ + 1]
                       ELSE stats
           /\ tasks' = [tasks EXCEPT ![i] =
                          [@ EXCEPT !.pc = "save_bot",
                                    !.is_completed = is_completed,
                                    !.bot_message = bot_message,
                                    !.provider =
                                        IF prov = ProviderFail THEN "raised"
                                        ELSE "replied"]]
    /\ clients' = CachedClients(heap')
    /\ UNCHANGED <<message_handlers, completion_handlers, error_handlers,
                   initialized, db_tables, db_clients, last, turns, config,
                   now, import_time, extraction, adapter_vars>>

\* chat(), lines 179-180, resumed after the reply is logged: _save_client
\* is called and computes the final_data column (line 344) before its
\* first await.
AsyncBotSaved(i) ==
    /\ tasks[i].op = "chat" /\ tasks[i].pc = "save_bot"
    /\ db_messages' =
          Append(db_messages, <<tasks[i].id, "bot", tasks[i].bot_message>>)
    /\ tasks' = [tasks EXCEPT ![i] =
                   [@ EXCEPT !.pc = "save_client",
                             !.final_data_json =
                                 FinalDataColumn(
                                     Obj(tasks[i].ref).final_data)]]
    /\ UNCHANGED <<clients, conversation_history, message_handlers,
                   completion_handlers, error_handlers, stats, initialized,
                   db_tables, db_clients, last, turns, config, heap, now,
                   import_time, extraction, adapter_vars>>

\* _save_client, lines 346-357: the row written when the INSERT runs, the
\* fields of the object as they are then.
RowSaved(f) == [RowOf(Obj(f.ref)) EXCEPT !.final_data = f.final_data_json]

\* chat(), lines 180-192, resumed after the record is saved: the response,
\* the handlers, the return.
AsyncClientSaved(i) ==
    /\ tasks[i].op = "chat" /\ tasks[i].pc = "save_client"
    /\ LET f == tasks[i]
           c == Obj(f.ref)
           response == [message |-> f.bot_message,
                        is_completed |-> f.is_completed,
                        extracted_data |-> IF f.is_completed THEN c.final_data
                                           ELSE PyNone]
           dispatch == CompletionDispatch(f.is_completed, f.was_completed)
           trace == Invocations("message", message_handlers) \o
                    (IF dispatch
                     THEN Invocations("completion", completion_handlers)
                     ELSE <<>>)
       IN  /\ db_clients' = DictSet(db_clients, c.user_id, RowSaved(f))
           /\ heap' = [heap EXCEPT
                         !.objects[f.ref].completion_calls =
                             IF dispatch THEN @ + Len(completion_handlers)
                             ELSE @]
           /\ last' = [NoOp EXCEPT
                         !.op = "chat", !.id = f.id,
                         !.was_completed = f.was_completed,
                         !.response = response,
                         !.provider = f.provider,
                         !.provider_calls = IF f.is_completed THEN 2 ELSE 1,
                         !.extraction_called = f.is_completed,
                         !.completion_dispatched = dispatch,
                         !.handler_trace = trace]
           /\ tasks' = RemoveAt(tasks, i)
    /\ UNCHANGED <<clients, conversation_history, message_handlers,
                   completion_handlers, error_handlers, stats, initialized,
                   db_tables, db_messages, turns, config, now, import_time,
                   extraction, adapter_vars>>

\* reset_client(), lines 312-315: the cache entry is replaced by a new
\* object and _save_client is called on it.
AsyncResetStart(id) ==
    /\ Len(tasks) < MaxTasks
    /\ CanAllocate
    /\ initialized' = TRUE
    /\ db_tables' = TRUE
    /\ stats' = StatsAfterInit
    /\ LET a == Len(heap.objects) + 1
       IN  /\ heap' = [objects |-> Append(heap.objects,
                                          NewObject(NewClientInfo(id))),
                       cache |-> DictSet(heap.cache, id, a)]
           /\ tasks' = Append(tasks,
                 [NoFrame EXCEPT !.op = "reset", !.id = id,
                                 !.pc = "save_client", !.ref = a,
                                 !.final_data_json = FinalDataColumn(PyNone)])
    /\ clients' = CachedClients(heap')
    /\ UNCHANGED <<conversation_history, message_handlers,
                   completion_handlers, error_handlers, db_clients,
                   db_messages, last, turns, config, now, import_time,
                   extraction, adapter_vars>>

\* A reset_client that, resumed after the save, empties every buffer.
AsyncResetSavedClearsBuffers(i) ==
    /\ tasks[i].op = "reset" /\ tasks[i].pc = "save_client"
    /\ db_clients' = DictSet(db_clients, tasks[i].id, RowSaved(tasks[i]))
    /\ conversation_history' = <<>>
    /\ last' = [NoOp EXCEPT !.op = "reset", !.id = tasks[i].id, !.ok = TRUE]
    /\ tasks' = RemoveAt(tasks, i)
    /\ UNCHANGED <<clients, message_handlers, completion_handlers,
                   error_handlers, stats, initialized, db_tables, db_messages,
                   turns, config, heap, now, import_time, extraction, adapter_vars>>

\* reset_client(), lines 315-321, resumed after the save: the buffer of the
\* client is deleted and True is returned.
AsyncResetSaved(i) ==
    /\ tasks[i].op = "reset" /\ tasks[i].pc = "save_client"
    /\ db_clients' = DictSet(db_clients, tasks[i].id, RowSaved(tasks[i]))
    /\ conversation_history' = DictDel(conversation_history, tasks[i].id)
    /\ last' = [NoOp EXCEPT !.op = "reset", !.id = tasks[i].id, !.ok = TRUE]
    /\ tasks' = RemoveAt(tasks, i)
    /\ UNCHANGED <<clients, message_handlers, completion_handlers,
                   error_handlers, stats, initialized, db_tables, db_messages,
                   turns, config, heap, now, import_time, extraction, adapter_vars>>

\* get_client_info() on a cached client, by any task, at any time.
AsyncGet(id) ==
    /\ id \in DOMAIN clients
    /\ last' = [NoOp EXCEPT !.op = "get", !.id = id, !.client = clients[id]]
    /\ UNCHANGED <<clients, conversation_history, message_handlers,
                   completion_handlers, error_handlers, stats, initialized,
                   db_tables, db_clients, db_messages, turns, config, tasks,
                   heap, now, import_time, extraction, adapter_vars>>

AsyncChatStep ==
    \/ \E id \in Ids, msg \in UserTexts : AsyncChatStart(id, msg)
    \/ \E i \in 1..Len(tasks) :
          \/ AsyncSelected(i)
          \/ \E prov \in ProviderOutcomes :
                \E extr \in (IF Contains(prov, COMPLETION_MARKER)
                              THEN {"obj"} ELSE {NotCalled}) :
                    AsyncUserSaved(i, prov, extr)
          \/ AsyncBotSaved(i)
          \/ AsyncClientSaved(i)

AsyncResetStep ==
    \/ \E id \in Ids : AsyncResetStart(id)
    \/ \E i \in 1..Len(tasks) : AsyncResetSaved(i)

NextAsync ==
    \/ AsyncChatStep
    \/ AsyncResetStep
    \/ \E id \in Ids : AsyncGet(id)
    \/ \E h \in HandlerNames : OnCompletion(h)

SpecAsync == Init /\ [][NextAsync]_vars

\* The same without reset_client: chat() calls only.
NextAsyncChats ==
    \/ AsyncChatStep
    \/ \E id \in Ids : AsyncGet(id)

SpecAsyncChats == Init /\ [][NextAsyncChats]_vars

\* ------------------------------------------------------------- two clients
\* The engine serving two clients, the calls of one overlapping with those
\* of the other as in SpecAsync: a call of one client can start or be
\* resumed while a call of the other is suspended.  The calls of each client
\* are made one after the other.
TwoIds == {"u1", "u2"}

\* No call of id is suspended.
Idle(id) == \A i \in 1..Len(tasks) : tasks[i].id # id

\* What the dialogue call yields here: a plain reply or one with the marker.
TwoReplies == {<<"reply">>, <<"reply", COMPLETION_MARKER>>}

\* Some step of a chat(id, ...): its start or one of its resumptions.
ChatOf(id) ==
    \/ \E msg \in UserTexts : Idle(id) /\ AsyncChatStart(id, msg)
    \/ \E i \in 1..Len(tasks) :
          /\ tasks[i].id = id
          /\ \/ AsyncSelected(i)
             \/ \E prov \in TwoReplies :
                   AsyncUserSaved(i, prov,
                                  IF Contains(prov, COMPLETION_MARKER)
                                  THEN "obj" ELSE NotCalled)
             \/ AsyncBotSaved(i)
             \/ AsyncClientSaved(i)

\* Some step of a reset_client(id).
ResetOf(id) ==
    \/ Idle(id) /\ AsyncResetStart(id)
    \/ \E i \in 1..Len(tasks) : tasks[i].id = id /\ AsyncResetSaved(i)

\* A get_client_info(id).
GetOf(id) == Idle(id) /\ AsyncGet(id)

NextTwo ==
    \/ \E id \in TwoIds : ChatOf(id)
    \/ \E id \in TwoIds : ResetOf(id)
    \/ \E id \in TwoIds : GetOf(id)

SpecTwo == Init /\ [][NextTwo]_vars

\* ----------------------------------------------------------- Avito adapter
\* AvitoGPTBot polling one Avito chat through an AvitoAPIClient that the
\* health check of main.py shares.  The engine is what the adapter sees of
\* it: chat() returns a response.  avito_bot.submitted lists the message
\* ids handed to chat(), in order.
MessageIds == {"a", "b"}

\* How the handling of one message ends (_process_client_message):
\*   lookup_raises  get_all_clients raises, chat() is not called;
\*   ok             reply sent, chat marked read;
\*   send_false     send_message catches an AvitoAPIError, returns False;
\*   send_raises    send_message raises something else (a timeout, a closed
\*                  session, a body that is not JSON);
\*   mark_false     mark_chat_read catches an AvitoAPIError;
\*   mark_raises    mark_chat_read raises something else;
\*   notify_raises  the dialog is complete and the notifier raises.
MessageOutcomes ==
    {"lookup_raises", "ok", "send_false", "send_raises", "mark_false",
     "mark_raises", "notify_raises"}

\* chat() is called.
Submits(o) == o # "lookup_raises"

\* The line processed_messages.add(message.id) is reached.
Records(o) == o \in {"ok", "send_false", "mark_false", "notify_raises"}

\* mark_chat_read has marked the chat read.
MarksRead(o) == o \in {"ok", "send_false", "notify_raises"}

\* The session self.session refers to can carry a request.
SessionUsable ==
    /\ avito_client.session # 0
    /\ avito_client.sessions[avito_client.session] = "open"

\* _process_chat: the inbound text messages not yet in processed_messages,
\* oldest first.
RECURSIVE Pending(_, _)
Pending(messages, processed) ==
    IF messages = <<>> THEN <<>>
    ELSE IF Head(messages) \in processed
         THEN Pending(Tail(messages), processed)
         ELSE <<Head(messages)>> \o Pending(Tail(messages), processed)

\* _process_chat over the pending messages, each with its outcome.
RECURSIVE ProcessChat(_, _, _, _)
ProcessChat(pending, outcome, bot, chats) ==
    IF pending = <<>> THEN [bot |-> bot, chats |-> chats]
    ELSE LET m == Head(pending)
             o == outcome[m]
             bot1 == [bot EXCEPT
                        !.submitted = IF Submits(o) THEN Append(@, m) ELSE @,
                        !.processed_messages =
                            IF Records(o) THEN @ \cup {m} ELSE @]
             chats1 == [chats EXCEPT
                          !.unread = IF MarksRead(o) THEN FALSE ELSE @]
         IN  ProcessChat(Tail(pending), outcome, bot1, chats1)

\* A client writes a text message into the chat.
ClientWrites(m) ==
    /\ \A i \in 1..Len(avito_chats.messages) : avito_chats.messages[i] # m
    /\ avito_chats' = [messages |-> Append(avito_chats.messages, m),
                       unread |-> TRUE]
    /\ UNCHANGED <<core_vars, avito_bot, avito_client, manager_bot, test_bot>>

\* _initialize_avito_integration, main.py lines 194-199: the connectivity
\* test, before any task runs.  __aenter__ makes a session, __aexit__
\* closes it; self.session keeps referring to it.
StartupTest ==
    /\ avito_client.sessions = <<>>
    /\ avito_client' = [avito_client EXCEPT
                          !.sessions = Append(@, "closed"),
                          !.session = 1]
    /\ UNCHANGED <<core_vars, avito_bot, avito_chats, manager_bot, test_bot>>

\* _run_avito_monitoring, main.py lines 279-280: __aenter__ makes the
\* session of the monitoring loop.
MonitoringStart ==
    /\ avito_client.monitoring = 0
    /\ Len(avito_client.sessions) < MaxSessions
    /\ LET n == Len(avito_client.sessions) + 1
       IN  avito_client' = [avito_client EXCEPT
                              !.sessions = Append(@, "open"),
                              !.session = n, !.monitoring = n]
    /\ UNCHANGED <<core_vars, avito_bot, avito_chats, manager_bot, test_bot>>

\* One cycle of start_monitoring: _process_new_messages.  Without a usable
\* session get_chats raises and the loop sleeps; fetched says which.
PollCycle(outcome) ==
    /\ avito_client.monitoring # 0
    /\ IF ~SessionUsable
       THEN /\ avito_bot' = [avito_bot EXCEPT !.fetched = FALSE]
            /\ UNCHANGED avito_chats
       ELSE LET pending == IF avito_chats.unread
                           THEN Pending(avito_chats.messages,
                                        avito_bot.processed_messages)
                           ELSE <<>>
                r == ProcessChat(pending, outcome, avito_bot, avito_chats)
            IN  /\ Len(avito_bot.submitted) + Len(pending) <= MaxSubmissions
                /\ avito_bot' = [r.bot EXCEPT !.fetched = TRUE]
                /\ avito_chats' = r.chats
    /\ UNCHANGED <<core_vars, avito_client, manager_bot, test_bot>>

\* _health_check_all, main.py lines 354-356: __aenter__ replaces
\* self.session by a new session, then get_chats suspends the check.
HealthCheckEnter ==
    /\ avito_client.health = 0
    /\ Len(avito_client.sessions) < MaxSessions
    /\ LET n == Len(avito_client.sessions) + 1
       IN  avito_client' = [avito_client EXCEPT
                              !.sessions = Append(@, "open"),
                              !.session = n, !.health = n]
    /\ UNCHANGED <<core_vars, avito_bot, avito_chats, manager_bot, test_bot>>

\* _health_check_all resumed: __aexit__ closes what self.session refers to.
HealthCheckExit ==
    /\ avito_client.health # 0
    /\ avito_client' = [avito_client EXCEPT
                          !.sessions[avito_client.session] = "closed",
                          !.health = 0]
    /\ UNCHANGED <<core_vars, avito_bot, avito_chats, manager_bot, test_bot>>

NextAvito ==
    \/ \E m \in MessageIds : ClientWrites(m)
    \/ StartupTest
    \/ MonitoringStart
    \/ \E outcome \in [MessageIds -> MessageOutcomes] : PollCycle(outcome)
    \/ HealthCheckEnter
    \/ HealthCheckExit

SpecAvito == Init /\ [][NextAvito]_vars

\* ------------------------------------------------------------- manager bot
\* TelegramManagerBot: who is in authorized_managers.  manager_stats keeps
\* notifications_received of each manager, notifications counts the calls
\* of send_completion_notification.
\* cmd_start, lines 72-83: whoever sends /start is added.
ManagerCmdStart(u) ==
    /\ manager_bot' = [manager_bot EXCEPT
                         !.authorized_managers = @ \cup {u},
                         !.manager_stats = DictSet(@, u, 0)]
    /\ UNCHANGED <<core_vars, avito_bot, avito_client, avito_chats, test_bot>>

\* cmd_stats, cmd_leads, cmd_system, btn_lead_details: answered for the
\* members of authorized_managers, refused for the others.
ManagerCommand(u) ==
    /\ manager_bot' = [manager_bot EXCEPT
                         !.served = [user |-> u,
                                     granted |-> u \in manager_bot.authorized_managers]]
    /\ UNCHANGED <<core_vars, avito_bot, avito_client, avito_chats, test_bot>>

\* send_completion_notification, lines 382-408: the message goes to every
\* member of authorized_managers; failed are those bot.send_message raises
\* for, and they are discarded from the set.
SendCompletionNotification(failed) ==
    /\ manager_bot.notifications < MaxNotifications
    /\ failed \subseteq manager_bot.authorized_managers
    /\ LET sent == manager_bot.authorized_managers \ failed
       IN  manager_bot' = [manager_bot EXCEPT
             !.authorized_managers = sent,
             !.manager_stats =
                 [m \in DOMAIN @ |-> IF m \in sent THEN @[m] + 1 ELSE @[m]],
             !.notifications = @ + 1,
             !.notifications_sent = @ + Cardinality(sent)]
    /\ UNCHANGED <<core_vars, avito_bot, avito_client, avito_chats, test_bot>>

NextManagers ==
    \/ \E u \in TelegramUsers : ManagerCmdStart(u)
    \/ \E u \in TelegramUsers : ManagerCommand(u)
    \/ \E failed \in SUBSET TelegramUsers : SendCompletionNotification(failed)

SpecManagers == Init /\ [][NextManagers]_vars

\* ---------------------------------------------------------------- test bot
\* TelegramTestBot: the FSM state of each tester and what the last update
\* did.  The engine is what the bot sees of it: chat() returns a response
\* with is_completed, reset_client returns true or false.
\* cmd_start, line 164, and btn_back_to_menu, line 496.
TestToMenu(u) ==
    /\ test_bot' = [test_bot EXCEPT
                      !.state[u] = "MENU",
                      !.event = [NoEvent EXCEPT !.kind = "menu", !.user = u]]
    /\ UNCHANGED <<core_vars, avito_bot, avito_client, avito_chats,
                   manager_bot>>

\* btn_start_test, lines 330-359.
BtnStartTest(u) ==
    /\ test_bot' = [test_bot EXCEPT
                      !.state[u] = "TESTING",
                      !.event = [NoEvent EXCEPT !.kind = "start_test",
                                                !.user = u]]
    /\ UNCHANGED <<core_vars, avito_bot, avito_client, avito_chats,
                   manager_bot>>

\* btn_confirm_reset, lines 379-418: MENU when reset_client returned true.
BtnConfirmReset(u, success) ==
    /\ test_bot' = [test_bot EXCEPT
                      !.state[u] = IF success THEN "MENU" ELSE @,
                      !.event = [NoEvent EXCEPT
                                   !.kind = IF success THEN "reset"
                                            ELSE "reset_failed",
                                   !.user = u]]
    /\ UNCHANGED <<core_vars, avito_bot, avito_client, avito_chats,
                   manager_bot>>

\* A text message of a tester.  In state TESTING it goes to
\* handle_test_message (lines 502-569): chat() is called; when the response
\* is complete the reply is sent first (message.answer, line 543) and the
\* state set to MENU after it (line 546), so that a reply that cannot be
\* delivered leaves the state as it is (except branch, line 560).  In any
\* other state it goes to handle_menu_message.
TestText(u, is_completed, delivered) ==
    /\ IF test_bot.state[u] = "TESTING"
       THEN /\ test_bot.forwards < MaxForwards
            /\ test_bot' = [test_bot EXCEPT
                  !.state[u] = IF is_completed /\ delivered THEN "MENU" ELSE @,
                  !.forwards = @ + 1,
                  !.event = [kind |-> "text", user |-> u, forwarded |-> TRUE,
                             is_completed |-> is_completed]]
       ELSE /\ ~is_completed /\ delivered
            /\ test_bot' = [test_bot EXCEPT
                  !.event = [NoEvent EXCEPT !.kind = "text", !.user = u]]
    /\ UNCHANGED <<core_vars, avito_bot, avito_client, avito_chats,
                   manager_bot>>

NextTestBot ==
    \/ \E u \in TelegramUsers : TestToMenu(u)
    \/ \E u \in TelegramUsers : BtnStartTest(u)
    \/ \E u \in TelegramUsers, success \in BOOLEAN : BtnConfirmReset(u, success)
    \/ \E u \in TelegramUsers, is_completed \in BOOLEAN, delivered \in BOOLEAN :
          TestText(u, is_completed, delivered)

SpecTestBot == Init /\ [][NextTestBot]_vars

\* ------------------------------------------------------------------ claims
\* The ClientInfo a chat() or get_client_info() call on id starts from.
Before(id) == GetOrCreateClient(clients, StatsAfterInit, id).client

\* Some chat(id, ...) call is this step.
IsChat(id) ==
    \E msg \in UserTexts, prov \in ProviderOutcomes, fault \in StoreFaults,
       extr \in ExtractionOutcomes \cup {NotCalled} :
        Chat(id, msg, prov, extr, fault)

\* C1: in sequential use the completion handlers are dispatched exactly on
\* the chat() call in which the record's is_complete goes from false to true,
\* and on no other chat() call (so once per lifetime).
C1_CompletionExactlyOnce ==
    last.op = "chat" =>
        (last.completion_dispatched <=>
            (~last.was_completed /\ clients[last.id].is_complete))

\* C2: chat() returns is_completed = true only on the call in which
\* is_complete goes from false to true, never on a client that was already
\* complete.
C2_CompletedFlagOnlyOnTransition ==
    (last.op = "chat" /\ last.response.is_completed) => ~last.was_completed

\* C3: a chat() on a client that is already complete makes no extraction
\* call (at most one provider call) and leaves final_data as it was.
C3_NoExtractionWhenComplete ==
    [][\A id \in Ids :
         (IsChat(id) /\ Before(id).is_complete) =>
             /\ ~last'.extraction_called
             /\ last'.provider_calls <= 1
             /\ clients'[id].final_data = Before(id).final_data]_vars

\* C4: for every cached record and every record as reloaded from its row,
\* final_data is non-null exactly when is_complete is true.
C4_FinalDataIffComplete ==
    /\ \A id \in DOMAIN clients :
         (clients[id].final_data # PyNone) <=> clients[id].is_complete
    /\ \A id \in DOMAIN db_clients :
         (ClientOfRow(id, db_clients[id]).final_data # PyNone)
             <=> ClientOfRow(id, db_clients[id]).is_complete

\* C5: a store write that fails during chat() or reset_client() reaches the
\* caller as an error, not as a returned value.
C5_StoreFailurePropagates ==
    (last.op \in {"chat", "reset"} /\ last.fault # "none") => last.raised

\* Some chat(id, ...) call whose dialogue call to the provider raises is this
\* step, with the store write failing at fault ("none": no write fails).
IsFailedProviderChat(id, fault) ==
    \E msg \in UserTexts : Chat(id, msg, ProviderFail, NotCalled, fault)

\* C6: when the provider's dialogue call fails, chat() returns (does not
\* raise) a response carrying a fixed error text and is_completed = false;
\* the call adds exactly 1 to message_count and leaves is_complete as it
\* was.  With the store working the text is the provider-failure reply.
C6_ProviderFailureReply ==
    [][\A id \in Ids, fault \in StoreFaults :
         IsFailedProviderChat(id, fault) =>
             /\ ~last'.raised
             /\ last'.response.message =
                    (IF fault = "none" THEN OPENAI_ERROR ELSE TECHNICAL_ERROR)
             /\ ~last'.response.is_completed
             /\ last'.response.extracted_data = PyNone
             /\ clients'[id].message_count = Before(id).message_count + 1
             /\ clients'[id].is_complete = Before(id).is_complete]_vars

\* C6, witness: a chat() on a new client whose provider call failed has
\* returned the provider-failure reply; the record counts one message and is
\* persisted incomplete.
C6_Witness ==
    /\ last.op = "chat" /\ last.provider = "raised" /\ last.fault = "none"
    /\ last.response.message = OPENAI_ERROR
    /\ clients[last.id].message_count = 1
    /\ ~clients[last.id].is_complete
    /\ last.id \in DOMAIN db_clients
    /\ db_clients[last.id].message_count = 1

\* C7: when the provider call of a turn fails, chat() invokes every
\* registered error handler once, and no message handler.
C7_ProviderFailureCallsErrorHandlers ==
    [][\A id \in Ids :
         IsFailedProviderChat(id, "none") =>
             last'.handler_trace = Invocations("error", error_handlers)]_vars

\* C8: after a chat() whose provider call fails, the record, the transcript
\* and the conversation buffer differ from before only by message_count + 1
\* and the inbound turn: no assistant turn, and in particular not the error
\* text, is appended to raw_data or to the buffer.
C8_ProviderFailureAppendsNothing ==
    [][\A id \in Ids, msg \in UserTexts :
         Chat(id, msg, ProviderFail, NotCalled, "none") =>
             /\ clients'[id] =
                    [Before(id) EXCEPT
                        !.message_count = @ + 1,
                        !.raw_data = Append(@, <<"user", msg>>)]
             /\ conversation_history' =
                    HistoryAppend(conversation_history, id, "user", msg)]_vars

\* The record of a lifetime that has just begun.
IsZeroState(c) ==
    /\ c.message_count = 0
    /\ ~c.is_complete
    /\ c.final_data = PyNone
    /\ c.raw_data = <<>>

\* The row of a lifetime that has just begun.
IsZeroRow(row) ==
    /\ row.message_count = 0
    /\ ~row.is_complete
    /\ row.final_data = SqlNull
    /\ row.raw_data = <<>>

\* C9: after a reset_client(id) that returned true, whatever the state of
\* the client before it, the cached record and the persisted row are the
\* zero state and id has no conversation buffer, and a get_client_info(id)
\* that follows returns the zero-state record.
C9_ResetGivesZeroState ==
    /\ [](\A id \in Ids :
            (last.op = "reset" /\ last.id = id /\ last.ok) =>
                /\ id \in DOMAIN clients /\ IsZeroState(clients[id])
                /\ id \notin DOMAIN conversation_history
                /\ id \in DOMAIN db_clients /\ IsZeroRow(db_clients[id]))
    /\ [][\A id \in Ids :
            (last.op = "reset" /\ last.id = id /\ last.ok /\ GetClientInfo(id))
                => (~last'.raised /\ last'.op = "get"
                    /\ IsZeroState(last'.client))]_vars

\* C9, witness: a reset has succeeded on a client that had completed its
\* dialogue (the counters and the message log still show the completed
\* turn) and get_client_info has then returned the zero-state record.
C9_Witness ==
    /\ last.op = "get" /\ ~last.raised /\ IsZeroState(last.client)
    /\ last.id \in DOMAIN db_clients /\ IsZeroRow(db_clients[last.id])
    /\ last.id \notin DOMAIN conversation_history
    /\ stats.completed_clients > 0
    /\ Len(db_messages) > 0

C11_ResetInvokesNoHandler ==
    last.op = "reset" =>
        (last.handler_trace = <<>> /\ ~last.completion_dispatched)

\* C11, witness: with a handler of each kind registered, a reset_client on
\* a client that had completed its dialogue has failed (returned false).
C11_Witness ==
    /\ last.op = "reset" /\ ~last.ok /\ last.fault = "client"
    /\ message_handlers # <<>> /\ completion_handlers # <<>>
    /\ error_handlers # <<>>
    /\ last.id \in DOMAIN db_clients /\ db_clients[last.id].is_complete
    /\ last.handler_trace = <<>>

\* C12: is_complete, as the next operation on the client finds it (the
\* cached record, else the record loaded from the row), never goes from
\* true to false in a step that is not a reset_client of that client:
\* chat(), get_client_info, get_all_clients, the registrations and a restart
\* all preserve is_complete = true.
C12_CompleteUntilReset ==
    [][\A id \in Ids :
         (Before(id).is_complete
            /\ ~(\E fault \in {"none", "client"} : ResetClient(id, fault)))
         => Before(id)'.is_complete]_vars

\* The chat() calls of the lifetime a record is in, counted on its
\* transcript: each successful call appends the inbound turn and the reply.
TurnsOfLifetime(raw_data) == Len(raw_data) \div 2

\* C13: when every chat() is a successful turn without the marker, a record
\* that is N calls into its lifetime (from a new clientId or from a reset)
\* has message_count = N and is_complete = false, in the cache and in the
\* row, and the row written by a call carries the count of the cached record.
C13_CountEqualsTurns ==
    \A id \in Ids :
        /\ id \in DOMAIN clients =>
              /\ clients[id].message_count =
                     TurnsOfLifetime(clients[id].raw_data)
              /\ clients[id].message_count <= turns
              /\ ~clients[id].is_complete
        /\ id \in DOMAIN db_clients =>
              /\ db_clients[id].message_count =
                     TurnsOfLifetime(db_clients[id].raw_data)
              /\ db_clients[id].message_count <= turns
              /\ ~db_clients[id].is_complete
        /\ (last.op = "chat" /\ last.id = id) =>
              /\ clients[id].message_count > 0
              /\ db_clients[id].message_count = clients[id].message_count

\* C13, witness: the second chat() of a lifetime has returned; the cached
\* record and the row both count 2 and are incomplete.
C13_Witness ==
    /\ last.op = "chat" /\ last.id \in DOMAIN db_clients
    /\ Len(clients[last.id].raw_data) = 4
    /\ clients[last.id].message_count = 2
    /\ db_clients[last.id].message_count = 2
    /\ ~clients[last.id].is_complete /\ ~db_clients[last.id].is_complete

\* The last n entries of a list, all of it when it has fewer: what a window
\* of n entries keeps, the oldest entries dropped and the order kept.
LastN(lst, n) ==
    IF Len(lst) <= n THEN lst ELSE SubSeq(lst, Len(lst) - n + 1, Len(lst))

\* The buffer of id, empty when id has none.
BufferOf(hist, id) == IF id \in DOMAIN hist THEN hist[id] ELSE <<>>

\* C14: for every configured window and every client, a chat() whose store
\* writes work appends the inbound turn and the reply to the buffer, and
\* after each of the two appends the buffer is the last max entries of what
\* it was with the entry appended: never longer than max, and at max + 1
\* the oldest entry is dropped and the others keep their order.
C14_BufferWithinWindow ==
    [][\A id \in Ids, msg \in UserTexts, prov \in ProviderOutcomes,
          extr \in ExtractionOutcomes \cup {NotCalled} :
         Chat(id, msg, prov, extr, "none") =>
            LET max == config.max_conversation_history
                old == BufferOf(conversation_history, id)
                mid == LastN(Append(old, <<"user", msg>>), max)
                new == LastN(Append(mid, <<"assistant",
                                           last'.response.message>>), max)
            IN  /\ Len(old) <= max
                /\ last'.request = mid
                /\ conversation_history'[id] = new
                /\ Len(conversation_history'[id]) <= max]_vars

\* C15: when a reply carries the marker and the extraction comes back
\* without an object (the call raises, the text has no {...} span, the span
\* is not JSON), a chat() whose store writes work does not raise and returns
\* the reply with is_completed = true and the empty mapping as
\* extracted_data; the record has is_complete = true and final_data = {} in
\* the cache, and the row is written complete.
C15_ExtractionFailureStillCompletes ==
    (last.op = "chat" /\ last.extraction_failed /\ last.fault = "none") =>
        /\ ~last.raised
        /\ last.response.is_completed
        /\ last.response.extracted_data = EmptyDict
        /\ last.response.message \notin {OPENAI_ERROR, TECHNICAL_ERROR}
        /\ clients[last.id].is_complete
        /\ clients[last.id].final_data = EmptyDict
        /\ last.id \in DOMAIN db_clients
        /\ db_clients[last.id].is_complete

\* C15, witness: the first chat() of a client has completed the dialogue
\* although its extraction came back without an object.
C15_Witness ==
    /\ last.op = "chat" /\ last.extraction_failed /\ ~last.was_completed
    /\ last.response.is_completed
    /\ last.response.extracted_data = EmptyDict
    /\ clients[last.id].is_complete
    /\ clients[last.id].final_data = EmptyDict
    /\ last.id \in DOMAIN db_clients /\ db_clients[last.id].is_complete

\* A chat(id, ...) call is this step: chat alone counts a turn.
ChatReturns(id) ==
    turns' = turns + 1 /\ last'.op = "chat" /\ last'.id = id

\* The BotResponse chat() builds for the outcomes of its calls: the reply
\* (lines 183-187) when every store write works, else the response of the
\* except branch (line 197).
BuiltResponse(prov, extr, fault) ==
    IF fault # "none"
    THEN [NoResponse EXCEPT !.message = TECHNICAL_ERROR]
    ELSE LET text == GeneratedText(prov)
         IN  [message |-> IF IsCompleted(text)
                          THEN RemoveTok(text, COMPLETION_MARKER) ELSE text,
              is_completed |-> IsCompleted(text),
              extracted_data |-> IF IsCompleted(text)
                                 THEN ExtractFinalData(extr) ELSE PyNone]

\* The handlers a chat() call is due to invoke, in order: the message
\* handlers and, on a turn that completes a client that was not complete,
\* the completion handlers; the error handlers when the call fails.
DueHandlers(id, prov, fault) ==
    IF fault # "none"
    THEN error_handlers
    ELSE message_handlers \o
         (IF IsCompleted(GeneratedText(prov)) /\ ~Before(id).is_complete
          THEN completion_handlers ELSE <<>>)

\* C16: whichever handlers raise, a chat() call invokes every handler that
\* is due (those registered after a raising one too, and the completion
\* handlers after the message handlers), does not raise, and returns the
\* BotResponse it built.
C16_RaisingHandlerIsContained ==
    [][\A id \in Ids, msg \in UserTexts, prov \in ProviderOutcomes :
         \A extr \in (IF Contains(prov, COMPLETION_MARKER)
                       THEN ExtractionOutcomes ELSE {NotCalled}) :
            (ChatReturns(id) /\ Chat(id, msg, prov, extr, last'.fault)) =>
                LET due == DueHandlers(id, prov, last'.fault)
                IN  /\ ~last'.raised
                    /\ last'.response =
                           BuiltResponse(prov, extr, last'.fault)
                    /\ Len(last'.handler_trace) = Len(due)
                    /\ \A i \in 1..Len(due) :
                           last'.handler_trace[i][2] = due[i]]_vars

\* C16, witness: on a completing turn the first message handler and the
\* first completion handler raised, the handlers after them were invoked,
\* and chat() returned the completed response.
C16_Witness ==
    /\ last.op = "chat" /\ ~last.raised /\ last.response.is_completed
    /\ last.response.extracted_data = IvanDict
    /\ last.handler_trace =
           << <<"message", "boom", "raised">>, <<"message", "h", "returned">>,
              <<"completion", "boom", "raised">>,
              <<"completion", "h", "returned">> >>

\* The invocations of a kind in a handler trace, in trace order.
TraceOfKind(trace, kind) ==
    SelectSeq(trace, LAMBDA e : e[1] = kind)

\* C17: registering a handler (on_message, on_completion, on_error, or
\* BotBuilder.build over the builder's lists) puts it after the handlers
\* registered before it; a chat() call invokes the handlers of a kind once
\* each in that order, no completion handler before a message handler, and
\* message and completion handlers only when the record has been persisted.
C17_HandlersInRegistrationOrder ==
    /\ [][\A id \in Ids :
            ChatReturns(id) =>
                LET trace == last'.handler_trace
                    m == TraceOfKind(trace, "message")
                    c == TraceOfKind(trace, "completion")
                    e == TraceOfKind(trace, "error")
                IN  /\ trace = m \o c \o e
                    /\ m \in {<<>>, Invocations("message", message_handlers)}
                    /\ c \in {<<>>, Invocations("completion",
                                                completion_handlers)}
                    /\ e \in {<<>>, Invocations("error", error_handlers)}
                    /\ (last'.fault = "none") => (trace = m \o c)
                    /\ (last'.fault # "none") => (trace = e)
                    /\ last'.completion_dispatched =>
                           c = Invocations("completion", completion_handlers)
                    /\ (m \o c # <<>>) =>
                           /\ last'.fault = "none"
                           /\ id \in DOMAIN db_clients'
                           /\ db_clients'[id] = RowOf(clients'[id])]_vars
    /\ [][\A h \in BuilderHandlers :
            /\ OnMessage(h) => message_handlers' = message_handlers \o <<h>>
            /\ OnCompletion(h) =>
                   completion_handlers' = completion_handlers \o <<h>>
            /\ OnError(h) => error_handlers' = error_handlers \o <<h>>]_vars
    /\ [][\A cs, ms, es \in BuilderLists :
            Build(cs, ms, es) =>
                /\ completion_handlers' = cs
                /\ message_handlers' = ms
                /\ error_handlers' = es]_vars

\* C17, witness: both handlers of each kind were registered, "h" before
\* "boom"; a completing turn was persisted and invoked the message handlers
\* and then the completion handlers, each list in that order.
C17_Witness ==
    /\ last.op = "chat" /\ last.completion_dispatched
    /\ message_handlers = <<"h", "boom">>
    /\ completion_handlers = <<"h", "boom">>
    /\ error_handlers = <<"h", "boom">>
    /\ Len(last.handler_trace) = 4
    /\ last.handler_trace[1][2] = "h" /\ last.handler_trace[2][2] = "boom"
    /\ last.handler_trace[3] = <<"completion", "h", "returned">>
    /\ db_clients[last.id].is_complete

\* C18: get_client_info on a clientId that is neither cached nor persisted
\* returns (does not raise) a record with message_count = 0, is_complete =
\* false and final_data = None, whatever was called on the engine before,
\* also as the first operation of a new engine over a new database.
C18_UnseenClientIsZero ==
    [][\A id \in Ids :
         (id \notin DOMAIN clients /\ id \notin DOMAIN db_clients
            /\ GetClientInfo(id)) =>
             /\ ~last'.raised
             /\ last'.client.user_id = id
             /\ last'.client.message_count = 0
             /\ ~last'.client.is_complete
             /\ last'.client.final_data = PyNone]_vars

\* C19: a get_client_info call writes nothing to the store (the tables
\* clients and messages are as before, and no table is created), calls the
\* provider not at all and invokes no handler; it leaves the conversation
\* buffers alone, and for a client that was not cached it adds the cache
\* entry and nothing else to the cache.
C19_GetClientInfoReadsOnly ==
    [][\A id \in Ids :
         GetClientInfo(id) =>
             /\ UNCHANGED <<db_clients, db_messages, db_tables>>
             /\ UNCHANGED conversation_history
             /\ last'.provider_calls = 0 /\ last'.provider = "not_called"
             /\ ~last'.extraction_called
             /\ last'.handler_trace = <<>>
             /\ \A other \in DOMAIN clients' :
                    other # id =>
                        (other \in DOMAIN clients
                            /\ clients'[other] = clients[other])]_vars

\* C19, witness: with handlers registered and a message log that is not
\* empty, get_client_info has returned the record of a client that was
\* neither cached nor persisted: the client is cached now and has no row.
C19_Witness ==
    /\ last.op = "get" /\ ~last.raised /\ IsZeroState(last.client)
    /\ last.id \in DOMAIN clients /\ last.id \notin DOMAIN db_clients
    /\ db_tables /\ db_messages # <<>>
    /\ message_handlers # <<>> /\ error_handlers # <<>>

\* C20: the message of the BotResponse of every chat() call is either the
\* reply of the provider with the marker removed or the one fixed
\* technical-error text, the same on the provider-failure path and on the
\* failure path of chat().
C20_ReplyOrOneErrorText ==
    last.op = "chat" =>
        \/ last.response.message = TECHNICAL_ERROR
        \/ /\ last.provider = "replied"
           /\ last.response.message \in
                  {RemoveTok(r, COMPLETION_MARKER) : r \in ProviderReplies}

\* C21: when chat() calls of one client overlap and the replies of both
\* carry the marker, the completion handlers are still invoked at most once
\* for the lifetime: no record object has had more completion handler
\* invocations than there are completion handlers.
C21_CompletionOncePerLifetime ==
    \A a \in 1..Len(heap.objects) :
        heap.objects[a].completion_calls <= Len(completion_handlers)

\* C22: when reset_client(id) and a chat(id) overlap, then once both have
\* finished the cached record, the row and the buffer belong to one
\* lifetime.  In particular, when the cached record is the zero state the
\* reset created (no chat() has started on it), the row is the zero row and
\* the client has no buffer: the chat that was in flight has not written the
\* pre-reset record over the row nor re-created a buffer.
C22_ResetLifetimeConsistent ==
    tasks = <<>> =>
        \A id \in DOMAIN clients :
            IsZeroState(clients[id]) =>
                /\ id \in DOMAIN db_clients => IsZeroRow(db_clients[id])
                /\ id \notin DOMAIN conversation_history

\* C23: message_count is incremented once per inbound turn also when chat()
\* calls overlap: when the chat() calls made for a client that was unseen
\* (never reset, every store write working) have all returned with the
\* provider's reply, the cached record and the row both carry the number of
\* those calls.
C23_CountEqualsCalls ==
    (/\ tasks = <<>>
     /\ \A i \in 1..Len(db_messages) : db_messages[i][3] # OPENAI_ERROR) =>
        \A id \in DOMAIN clients :
            /\ clients[id].message_count = turns
            /\ id \in DOMAIN db_clients
            /\ db_clients[id].message_count = turns

\* C24: a get_client_info(id) made by another task while a chat(id) is
\* suspended never observes an intermediate state.  In particular, with no
\* provider failure in the observed lifetime, the observed record never has
\* message_count incremented without the inbound text in raw_data: it holds
\* the two raw_data entries of every turn it counts.
C24_NoIntermediateStateObserved ==
    (/\ last.op = "get"
     /\ \A j \in 1..Len(last.client.raw_data) :
            last.client.raw_data[j][2] # OPENAI_ERROR) =>
        Len(last.client.raw_data) = 2 * last.client.message_count

\* C25: a completion is never lost when the save of the completing turn
\* fails: in no reachable state is the cached record complete (so that every
\* later chat() reads was_completed = true and dispatches nothing) when the
\* call that completed it has returned without dispatching the completion
\* handlers.
C25_CompletionNeverLost ==
    \A id \in DOMAIN clients :
        ~(/\ clients[id].is_complete
          /\ last.op = "chat"
          /\ last.id = id
          /\ ~last.was_completed
          /\ ~last.completion_dispatched)

\* C26: the cache is write-through: between operations every cached record
\* that has a row agrees with the row on raw_data, is_complete and
\* message_count, also after a chat() that ended on its failure path.
C26_CacheAgreesWithRow ==
    \A id \in DOMAIN clients \cap DOMAIN db_clients :
        /\ db_clients[id].raw_data = clients[id].raw_data
        /\ db_clients[id].is_complete = clients[id].is_complete
        /\ db_clients[id].message_count = clients[id].message_count

\* The inbound messages of id in the message log: one for every chat(id)
\* that got as far as its provider request, in any lifetime and any process.
ProviderRequestsLogged(id) ==
    {i \in 1..Len(db_messages) :
        db_messages[i][1] = id /\ db_messages[i][2] = "user"}

\* C28: a provider request carries the first-message instruction exactly
\* when it is the first provider request of the client's lifetime.  For a
\* chat() that reaches the provider: when the client has had no provider
\* request at all the request carries the instruction (also when an earlier
\* chat() failed before reaching the provider), and a request that carries
\* it finds no turn in the record.
C28_FirstInstructionOnFirstRequest ==
    [][\A id \in Ids :
          (ChatReturns(id) /\ last'.provider # "not_called") =>
              /\ ProviderRequestsLogged(id) = {} => last'.first_instruction
              /\ last'.first_instruction => Before(id).raw_data = <<>>]_vars

\* C27: created_at is the time the lifetime was created.  A record created
\* by a reset_client that returned true carries a timestamp not earlier than
\* the call, and the created_at of a row stays what it is for as long as the
\* lifetime lasts (until a reset), also when a restart reloads the record
\* and a later chat() saves it again.
C27_CreatedAtIsLifetimeStart ==
    [][\A id \in Ids :
          /\ (last'.op = "reset" /\ last'.id = id /\ last'.ok) =>
                 clients'[id].created_at >= now
          /\ (/\ id \in DOMAIN db_clients
              /\ id \in DOMAIN db_clients'
              /\ last'.op # "reset") =>
                 db_clients'[id].created_at = db_clients[id].created_at]_vars

\* C29: the text handed to the JSON parser is the span from the first "{"
\* of the response to its last "}", line breaks included, whatever prose
\* stands before and after; with no such pair nothing is parsed and the
\* result is the empty mapping; a response with two separate objects gives
\* one span over both, which does not parse, and the empty mapping.
C29_SpanFirstBraceToLast ==
    extraction.called =>
        LET t == extraction.text
            opens == {i \in 1..Len(t) : t[i] = "{"}
            closes == {j \in 1..Len(t) : t[j] = "}"}
        IN  IF \E i \in opens, j \in closes : i < j
            THEN /\ extraction.matched
                 /\ extraction.span = SubSeq(t, Min(opens), Max(closes))
                 /\ (\E p, q \in Min(opens)..Max(closes) :
                        p < q /\ t[p] = "}" /\ t[q] = "{") =>
                            extraction.result = EmptyDict
                 /\ extraction.result \in {EmptyDict, IvanDict}
                 /\ extraction.result = IvanDict =>
                        Significant(extraction.span) = <<"{", "member", "}">>
            ELSE /\ ~extraction.matched
                 /\ extraction.result = EmptyDict

\* A response with two objects has been searched: one span over both.
C29_Witness ==
    /\ extraction.called
    /\ extraction.matched
    /\ Len(extraction.span) = 4
    /\ extraction.span[2] = "}"
    /\ extraction.span[3] = "{"
    /\ extraction.result = EmptyDict

\* The entry of key k is the same in the dicts f and g, or in neither.
SameAt(f, g, k) ==
    /\ (k \in DOMAIN f) = (k \in DOMAIN g)
    /\ k \in DOMAIN f => f[k] = g[k]

\* The cached record, the row and the buffer of b are left as they are.
Untouched(b) ==
    /\ SameAt(clients, clients', b)
    /\ SameAt(db_clients, db_clients', b)
    /\ SameAt(conversation_history, conversation_history', b)

\* C30: every step of a chat(a, .), of a reset_client(a) and of a
\* get_client_info(a) leaves the cached record, the row and the buffer of
\* every other client unchanged, however the calls of the two clients are
\* interleaved.
C30_OtherClientsUntouched ==
    [][\A a \in TwoIds : \A b \in TwoIds \ {a} :
          Untouched(b) \/ ~(ChatOf(a) \/ ResetOf(a) \/ GetOf(a))]_vars

\* A reset_client of one client has returned while a chat() of the other,
\* which has a record, a row and a buffer, is suspended.
C30_Witness ==
    /\ last.op = "reset"
    /\ last.id = "u1"
    /\ ~Idle("u2")
    /\ "u2" \in DOMAIN clients
    /\ "u2" \in DOMAIN db_clients
    /\ "u2" \in DOMAIN conversation_history

\* Every cached record has been saved as it is: no save has been lost.
AllSaved ==
    \A id \in DOMAIN clients :
        id \in DOMAIN db_clients /\ db_clients[id] = RowOf(clients[id])

\* C34: between operations of an initialised engine the completed counter
\* that get_stats() reports as completions_count is the number of rows with
\* is_complete = true: one per lifetime that completed, no more after a
\* repeated marker, no less stale after the reset of a completed client.
\* Stated for the states in which no save has been lost.
C34_CompletionsCountIsCompletedRows ==
    (initialized /\ AllSaved) =>
        stats.completed_clients =
            Cardinality({id \in DOMAIN db_clients : db_clients[id].is_complete})

\* C35: messages_count means the same across restarts: what an initialised
\* engine reports after its chat() calls is what a new engine started over
\* the same store would recompute at its initialisation.
C35_MessagesCountSurvivesRestart ==
    initialized =>
        stats.total_messages =
            LoadedStats(db_clients, db_messages).total_messages

\* C31: across the polling cycles of the Avito adapter every inbound text
\* message is passed to chat() at most once: no message id occurs twice
\* among the submitted ones, also when sending the reply, marking the chat
\* read or notifying the managers fails after chat() has returned.
C31_MessageSubmittedAtMostOnce ==
    \A i, j \in 1..Len(avito_bot.submitted) :
        i # j => avito_bot.submitted[i] # avito_bot.submitted[j]

\* C32: while the monitoring loop runs, self.session of the shared client
\* is the session the loop opened, and it is open: no other task has
\* replaced or closed it.
C32_MonitoringSessionStaysOpen ==
    avito_client.monitoring # 0 =>
        /\ avito_client.session = avito_client.monitoring
        /\ avito_client.sessions[avito_client.monitoring] = "open"
        /\ SessionUsable

\* C33: the identities that receive the completed-lead notifications and
\* may use the manager commands are in every reachable state the configured
\* manager ids: a /start of some other user does not add one, a failed
\* delivery does not remove one.
C33_ManagersAreTheConfiguredOnes ==
    manager_bot.authorized_managers = ManagerIds

\* C36: text messages of a tester go to chat() only in state TESTING, and
\* the tester is in state MENU after a turn whose response is complete and
\* after a confirmed reset, so that the next text gets the menu help.
C36_CompletedTurnLeavesTesting ==
    /\ (test_bot.event.kind = "text" /\ test_bot.event.forwarded
        /\ test_bot.event.is_completed) =>
            test_bot.state[test_bot.event.user] = "MENU"
    /\ test_bot.event.kind = "reset" =>
            test_bot.state[test_bot.event.user] = "MENU"

====
